---- MODULE Spec2Model ----
(***************************************************************************)
(* A model of the two CI scripts of the repository:                        *)
(*   .github/scripts/extract_test_failures.py  (JUnit XML -> failures)     *)
(*   .github/scripts/generate_test_report.py   (Java sources -> overview)  *)
(* Python strings are sequences of one-character strings, so that slicing, *)
(* substring search and the regular expressions are computed, not assumed. *)
(***************************************************************************)
EXTENDS Integers, Sequences, FiniteSets, TLC

VARIABLES
    batch,      \* extract_failures: the report paths rglob yields, in order
    pos,        \* extract_failures: index of the next path of the for loop
    failures,   \* extract_failures: the local list `failures`
    stderr,     \* the warnings printed to sys.stderr
    raised,     \* TRUE when an exception has left the for loop
    returned,   \* TRUE when extract_failures has returned `failures`
    message,    \* parse_assertion_error: its argument
    parsed,     \* parse_assertion_error: <<>> before the call, <<result>> after
    repo,       \* scan_all: the (plugin, java file) pairs it scans, in order
    done,       \* scan_all: how many of them scan_java_file has been called on
    tests,      \* TestScanner.tests
    summaries,  \* the last result of generate_summary, as a sequence
    overall     \* the overall statistics of the last generate_markdown_report

extractVars == <<batch, pos, failures, stderr, raised, returned>>
parseVars == <<message, parsed>>
scanVars == <<repo, done, tests, summaries, overall>>
vars == <<batch, pos, failures, stderr, raised, returned, message, parsed,
          repo, done, tests, summaries, overall>>

(***************************************************************************)
(* Strings                                                                 *)
(***************************************************************************)
LowerLetters == <<"a", "b", "c", "d", "e", "f", "g", "h", "i", "j", "k", "l", "m", "n", "o", "p", "q", "r", "s", "t", "u", "v", "w", "x", "y", "z">>
UpperLetters == <<"A", "B", "C", "D", "E", "F", "G", "H", "I", "J", "K", "L", "M", "N", "O", "P", "Q", "R", "S", "T", "U", "V", "W", "X", "Y", "Z">>
Digits == <<"0", "1", "2", "3", "4", "5", "6", "7", "8", "9">>

Range(s) == {s[i] : i \in 1..Len(s)}

\* re: \s
IsSpace(c) == c \in {" ", "\t", "\n", "\r", "\f"}

\* re: \w
IsWord(c) == c \in Range(LowerLetters) \cup Range(UpperLetters) \cup Range(Digits) \cup {"_"}

\* re.IGNORECASE compares the case-folded characters
Lower(c) ==
    IF c \in Range(UpperLetters)
    THEN LowerLetters[CHOOSE i \in 1..26 : UpperLetters[i] = c]
    ELSE c

\* s[a:b] with 1-based inclusive bounds (empty when b < a)
Slice(s, a, b) == SubSeq(s, a, b)

\* s[:n]
Prefix(s, n) == Slice(s, 1, IF n < Len(s) THEN n ELSE Len(s))

\* the literal lit occurs in s at position p
MatchAt(s, p, lit) ==
    /\ p >= 1
    /\ p + Len(lit) - 1 <= Len(s)
    /\ \A k \in 1..Len(lit) : s[p + k - 1] = lit[k]

\* the same, under re.IGNORECASE
MatchAtI(s, p, lit) ==
    /\ p >= 1
    /\ p + Len(lit) - 1 <= Len(s)
    /\ \A k \in 1..Len(lit) : Lower(s[p + k - 1]) = Lower(lit[k])

\* lit in s
Contains(s, lit) == \E p \in 1..(Len(s) - Len(lit) + 1) : MatchAt(s, p, lit)

RECURSIVE SkipSpace(_, _)
\* the position after a maximal run of whitespace starting at p (re: \s*
\* followed by something that is not whitespace)
SkipSpace(s, p) ==
    IF p > Len(s) \/ ~IsSpace(s[p]) THEN p ELSE SkipSpace(s, p + 1)

RECURSIVE SkipWord(_, _)
\* the position after a maximal run of word characters starting at p
SkipWord(s, p) ==
    IF p > Len(s) \/ ~IsWord(s[p]) THEN p ELSE SkipWord(s, p + 1)

\* str.strip()
Strip(s) ==
    IF \A i \in 1..Len(s) : IsSpace(s[i])
    THEN <<>>
    ELSE LET a == CHOOSE i \in 1..Len(s) : ~IsSpace(s[i]) /\ \A k \in 1..(i - 1) : IsSpace(s[k])
             b == CHOOSE i \in 1..Len(s) : ~IsSpace(s[i]) /\ \A k \in (i + 1)..Len(s) : IsSpace(s[k])
         IN  Slice(s, a, b)

RECURSIVE ConcatAll(_)
\* the concatenation of a sequence of sequences
ConcatAll(ss) == IF ss = <<>> THEN <<>> ELSE Head(ss) \o ConcatAll(Tail(ss))

(***************************************************************************)
(* extract_test_failures.py                                                *)
(***************************************************************************)
Unknown == <<"U", "n", "k", "n", "o", "w", "n">>
NoMessage == <<"N", "o", " ", "m", "e", "s", "s", "a", "g", "e">>
NoStacktrace == <<"N", "o", " ", "s", "t", "a", "c", "k", "t", "r", "a", "c", "e">>
MessageSuffix == <<".", ".", ".", " ", "(", "t", "r", "u", "n", "c", "a", "t", "e", "d", ")">>
StacktraceSuffix == <<"\n", ".", ".", ".", " ", "(", "t", "r", "u", "n", "c", "a", "t", "e", "d", ")">>
MessageCap == 1000
StacktraceCap == 5000

\* An xml.etree Element.  attrib is a sequence of <<name, value>> pairs; text
\* is <<>> for None and <<s>> for the string s.
Element(tag, attrib, text, children) ==
    [tag |-> tag, attrib |-> attrib, text |-> text, children |-> children]

\* Element.get(key, default)
Get(e, key, default) ==
    IF \E i \in 1..Len(e.attrib) : e.attrib[i][1] = key
    THEN e.attrib[CHOOSE i \in 1..Len(e.attrib) :
                     e.attrib[i][1] = key /\ \A k \in 1..(i - 1) : e.attrib[k][1] # key][2]
    ELSE default

\* Element.findall(tag): the direct children with that tag, in document order
Findall(e, tag) == SelectSeq(e.children, LAMBDA c : c.tag = tag)

\* Element.find(tag): <<>> for None, else <<the first such child>>
Find(e, tag) == Prefix(Findall(e, tag), 1)

RECURSIVE Descendants(_)
\* every element below e, in document order
Descendants(e) ==
    ConcatAll([i \in 1..Len(e.children) |->
                  <<e.children[i]>> \o Descendants(e.children[i])])

\* Element.findall(".//" + tag)
FindallDeep(e, tag) == SelectSeq(Descendants(e), LAMBDA c : c.tag = tag)

\* x.text or default
TextOr(e, default) == IF e.text = <<>> \/ e.text[1] = <<>> THEN default ELSE e.text[1]

\* the record appended for a <failure> child
FailureEntry(failure, class_name, test_name) ==
    LET msg == Get(failure, "message", NoMessage)
        stacktrace == TextOr(failure, NoStacktrace)
        truncated_message ==
            IF Len(msg) > MessageCap
            THEN Prefix(msg, MessageCap) \o MessageSuffix
            ELSE Prefix(msg, MessageCap)
        truncated_stacktrace ==
            IF Len(stacktrace) > StacktraceCap
            THEN Prefix(stacktrace, StacktraceCap) \o StacktraceSuffix
            ELSE Prefix(stacktrace, StacktraceCap)
        parse_source ==
            IF "\n" \in Range(stacktrace) THEN truncated_stacktrace ELSE truncated_message
    IN  [class |-> class_name, test |-> test_name, message |-> truncated_message,
         stacktrace |-> truncated_stacktrace, parse_source |-> parse_source]

\* ErrorEntry clipping at >= the cap instead of > the cap
ErrorEntryAtCap(error, class_name, test_name) ==
    LET msg == Get(error, "message", NoMessage)
        stacktrace == TextOr(error, NoStacktrace)
        truncated_message ==
            IF Len(msg) >= MessageCap
            THEN Prefix(msg, MessageCap) \o MessageSuffix
            ELSE Prefix(msg, MessageCap)
        truncated_stacktrace ==
            IF Len(stacktrace) >= StacktraceCap
            THEN Prefix(stacktrace, StacktraceCap) \o StacktraceSuffix
            ELSE Prefix(stacktrace, StacktraceCap)
        parse_source ==
            IF "\n" \in Range(stacktrace) THEN truncated_stacktrace ELSE truncated_message
    IN  [class |-> class_name, test |-> test_name, message |-> truncated_message,
         stacktrace |-> truncated_stacktrace, parse_source |-> parse_source]

\* the record appended for an <error> child
ErrorEntry(error, class_name, test_name) ==
    LET msg == Get(error, "message", NoMessage)
        stacktrace == TextOr(error, NoStacktrace)
        truncated_message ==
            IF Len(msg) > MessageCap
            THEN Prefix(msg, MessageCap) \o MessageSuffix
            ELSE Prefix(msg, MessageCap)
        truncated_stacktrace ==
            IF Len(stacktrace) > StacktraceCap
            THEN Prefix(stacktrace, StacktraceCap) \o StacktraceSuffix
            ELSE Prefix(stacktrace, StacktraceCap)
        parse_source ==
            IF "\n" \in Range(stacktrace) THEN truncated_stacktrace ELSE truncated_message
    IN  [class |-> class_name, test |-> test_name, message |-> truncated_message,
         stacktrace |-> truncated_stacktrace, parse_source |-> parse_source]

\* the body of `for testcase in testsuite.findall("testcase")`
TestcaseEntries(testcase, suite_name) ==
    LET test_name == Get(testcase, "name", Unknown)
        class_name == Get(testcase, "classname", suite_name)
        failure == Find(testcase, "failure")
        error == Find(testcase, "error")
    IN  (IF failure # <<>> THEN <<FailureEntry(failure[1], class_name, test_name)>> ELSE <<>>)
        \o (IF error # <<>> THEN <<ErrorEntry(error[1], class_name, test_name)>> ELSE <<>>)

\* the body of `for testsuite in testsuites`
TestsuiteEntries(testsuite) ==
    LET suite_name == Get(testsuite, "name", Unknown)
        testcases == Findall(testsuite, "testcase")
    IN  ConcatAll([i \in 1..Len(testcases) |-> TestcaseEntries(testcases[i], suite_name)])

\* what the try block appends for a parsed document
DocumentEntries(root) ==
    LET testsuites == IF root.tag = "testsuites" THEN FindallDeep(root, "testsuite") ELSE <<root>>
    IN  ConcatAll([i \in 1..Len(testsuites) |-> TestsuiteEntries(testsuites[i])])

(***************************************************************************)
(* The report files.  A path is a record; ET_parse gives what ET.parse     *)
(* does with the file at that path: a tree, a ParseError, or another       *)
(* exception (an unreadable file).                                         *)
(***************************************************************************)
MaxBatch == 3
Slack == 2

T_FooTest == <<"F", "o", "o", "T", "e", "s", "t">>
T_ComFooTest == <<"c", "o", "m", ".", "x", ".", "F", "o", "o", "T", "e", "s", "t">>
T_testA == <<"t", "e", "s", "t", "A">>
T_testB == <<"t", "e", "s", "t", "B">>
T_boom == <<"b", "o", "o", "m">>
T_trace == <<"a", "t", " ", "F", "o", "o", ".", "b", "a", "r", "\n", "a", "t", " ", "B", "a", "z", ".", "q", "u", "x">>
T_npe == <<"N", "u", "l", "l", "P", "o", "i", "n", "t", "e", "r", "E", "x", "c", "e", "p", "t", "i", "o", "n">>
T_expected53 == <<"e", "x", "p", "e", "c", "t", "e", "d", ":", " ", "<", "5", ">", " ", "b", "u", "t", " ", "w", "a", "s", ":", " ", "<", "3", ">">>

FixedNames == {"failure", "error", "both", "multi", "passing", "malformed", "unreadable",
               "bare", "twofail", "nested", "deep"}
FixedPaths == {[name |-> n, tag |-> "", mlen |-> 0, slen |-> 0] : n \in FixedNames}

\* message lengths (-1: no message attribute) and body lengths (0: no text)
MessageLens == {-1, 0} \cup ((MessageCap - Slack)..(MessageCap + Slack))
StacktraceLens == {0, 1} \cup ((StacktraceCap - Slack)..(StacktraceCap + Slack))
GeneratedPaths ==
    {[name |-> "generated", tag |-> t, mlen |-> m, slen |-> n] :
        t \in {"failure", "error"}, m \in MessageLens, n \in StacktraceLens}

MakeMessage(n) == [i \in 1..n |-> LowerLetters[(i % 26) + 1]]
MakeStacktrace(n) == [i \in 1..n |-> IF i % 40 = 0 THEN "\n" ELSE UpperLetters[(i % 26) + 1]]

Marker(tag, msg, text) == Element(tag, <<<<"message", msg>>>>, <<text>>, <<>>)
Testcase(name, children) ==
    Element("testcase", <<<<"name", name>>, <<"classname", T_ComFooTest>>>>, <<>>, children)
Testsuite(children) == Element("testsuite", <<<<"name", T_FooTest>>>>, <<>>, children)

XmlTree(path) ==
    CASE path.name = "failure" ->
           Testsuite(<<Testcase(T_testA, <<Marker("failure", T_expected53, T_trace)>>)>>)
      [] path.name = "error" ->
           Testsuite(<<Testcase(T_testA, <<Marker("error", T_npe, T_trace)>>)>>)
      [] path.name = "both" ->
           Testsuite(<<Testcase(T_testA, <<Marker("failure", T_boom, T_boom),
                                           Element("system-out", <<>>, <<T_boom>>, <<>>),
                                           Marker("error", T_npe, T_trace)>>)>>)
      [] path.name = "multi" ->
           Element("testsuites", <<>>, <<>>,
                   <<Testsuite(<<Testcase(T_testA, <<>>),
                                 Testcase(T_testB, <<Marker("error", T_boom, T_trace)>>)>>),
                     Testsuite(<<Testcase(T_testA, <<Marker("failure", T_npe, T_boom)>>)>>)>>)
      [] path.name = "passing" ->
           Testsuite(<<Testcase(T_testA, <<>>), Testcase(T_testB, <<>>)>>)
      [] path.name = "bare" ->
           Element("testsuite", <<>>, <<>>,
                   <<Element("testcase", <<>>, <<>>,
                             <<Element("failure", <<>>, <<>>, <<>>)>>)>>)
      [] path.name = "twofail" ->
           Testsuite(<<Testcase(T_testA, <<Marker("failure", T_boom, T_trace),
                                           Marker("failure", T_npe, T_trace)>>)>>)
      [] path.name = "nested" ->
           Testsuite(<<Testcase(T_testA, <<>>),
                       Testsuite(<<Testcase(T_testB, <<Marker("failure", T_boom, T_trace)>>)>>)>>)
      [] path.name = "deep" ->
           Element("testsuites", <<>>, <<>>,
                   <<Testsuite(<<Testcase(T_testA, <<Marker("failure", T_boom, T_trace)>>),
                                 Testsuite(<<Testcase(T_testB,
                                               <<Marker("error", T_npe, T_trace)>>)>>)>>)>>)
      [] path.name = "generated" ->
           Testsuite(<<Testcase(T_testA,
               <<Element(path.tag,
                         IF path.mlen < 0 THEN <<>>
                         ELSE <<<<"message", MakeMessage(path.mlen)>>>>,
                         IF path.slen = 0 THEN <<>> ELSE <<MakeStacktrace(path.slen)>>,
                         <<>>)>>)>>)
      [] OTHER -> Element("", <<>>, <<>>, <<>>)

\* ET.parse(xml_path), then tree.getroot()
ET_parse(path) ==
    [status |-> CASE path.name = "malformed" -> "ParseError"
                  [] path.name = "unreadable" -> "OSError"
                  [] OTHER -> "ok",
     root |-> XmlTree(path)]

\* the sequences without repetition of at most n members of S
Listings(S, n) ==
    {s \in UNION {[1..k -> S] : k \in 0..n} : \A i, j \in 1..Len(s) : i # j => s[i] # s[j]}

(***************************************************************************)
(* extract_failures: one step per iteration of the loop over the paths     *)
(***************************************************************************)
\* a handler that reports the document and lets the error leave the loop
ExceptParseErrorReraise(path, fs, err) ==
    [failures |-> fs,
     stderr |-> Append(err, [warning |-> "Could not parse", path |-> path]),
     raised |-> TRUE]

\* except ET.ParseError as e: print(..., file=sys.stderr)
ExceptParseError(path, fs, err) ==
    [failures |-> fs,
     stderr |-> Append(err, [warning |-> "Could not parse", path |-> path]),
     raised |-> FALSE]

\* except Exception as e: print(..., file=sys.stderr)
ExceptException(path, fs, err) ==
    [failures |-> fs,
     stderr |-> Append(err, [warning |-> "Error processing", path |-> path]),
     raised |-> FALSE]

\* the try statement of one iteration
TryDocument(path, fs, err) ==
    LET doc == ET_parse(path)
    IN  CASE doc.status = "ok" ->
               [failures |-> fs \o DocumentEntries(doc.root), stderr |-> err, raised |-> FALSE]
          [] doc.status = "ParseError" -> ExceptParseError(path, fs, err)
          [] OTHER -> ExceptException(path, fs, err)

InitExtract ==
    /\ batch \in Listings(FixedPaths, MaxBatch) \cup {<<p>> : p \in GeneratedPaths}
    /\ pos = 1
    /\ failures = <<>>
    /\ stderr = <<>>
    /\ raised = FALSE
    /\ returned = FALSE
    /\ message = <<>> /\ parsed = <<>>
    /\ repo = <<>> /\ done = 0 /\ tests = <<>> /\ summaries = <<>> /\ overall = <<>>

ProcessDocument ==
    /\ ~returned /\ ~raised
    /\ pos <= Len(batch)
    /\ LET r == TryDocument(batch[pos], failures, stderr)
       IN  /\ failures' = r.failures
           /\ stderr' = r.stderr
           /\ raised' = r.raised
    /\ pos' = pos + 1
    /\ UNCHANGED <<batch, returned>>
    /\ UNCHANGED <<parseVars, scanVars>>

ReturnFailures ==
    /\ ~returned /\ ~raised
    /\ pos > Len(batch)
    /\ returned' = TRUE
    /\ UNCHANGED <<batch, pos, failures, stderr, raised>>
    /\ UNCHANGED <<parseVars, scanVars>>

NextExtract == ProcessDocument \/ ReturnFailures
SpecExtract == InitExtract /\ [][NextExtract]_vars

(***************************************************************************)
(* parse_assertion_error                                                   *)
(***************************************************************************)
L_expected == <<"e", "x", "p", "e", "c", "t", "e", "d", ":">>
L_butwas == <<"b", "u", "t", " ", "w", "a", "s", ":">>
L_actual == <<"a", "c", "t", "u", "a", "l", ":">>

Max(S) == CHOOSE x \in S : \A y \in S : y <= x
Min(S) == CHOOSE x \in S : \A y \in S : x <= y

\* expected:\s*<   tried at position s: the position of the "<", or 0
P1Open(m, s) ==
    IF MatchAtI(m, s, L_expected)
    THEN LET p == SkipSpace(m, s + Len(L_expected))
         IN  IF p <= Len(m) /\ m[p] = "<" THEN p ELSE 0
    ELSE 0

\* >\s*but was:\s*<   tried at the ">" at position g: the position of the
\* second "<", or 0
P1Middle(m, g) ==
    IF g <= Len(m) /\ m[g] = ">"
    THEN LET q == SkipSpace(m, g + 1)
             r == SkipSpace(m, q + Len(L_butwas))
         IN  IF MatchAtI(m, q, L_butwas) /\ r <= Len(m) /\ m[r] = "<" THEN r ELSE 0
    ELSE 0

\* the positions of a ">" closing the first group, for the "<" at p
P1Closers(m, p) ==
    {g \in (p + 1)..Len(m) :
        /\ P1Middle(m, g) # 0
        /\ \E h \in (P1Middle(m, g) + 1)..Len(m) : m[h] = ">"}

\* re.search(r'expected:\s*<(.*)>\s*but was:\s*<(.*)>', message,
\*           re.DOTALL | re.IGNORECASE): the leftmost start, both groups greedy
Pattern1(m) ==
    LET starts == {s \in 1..Len(m) : P1Open(m, s) # 0 /\ P1Closers(m, P1Open(m, s)) # {}}
    IN  IF starts = {} THEN <<>>
        ELSE LET p == P1Open(m, Min(starts))
                 g == Max(P1Closers(m, p))
                 r == P1Middle(m, g)
                 h == Max({k \in (r + 1)..Len(m) : m[k] = ">"})
             IN  <<[expected |-> Strip(Slice(m, p + 1, g - 1)),
                    actual |-> Strip(Slice(m, r + 1, h - 1))]>>

\* re.search(r'Expected:\s*(.*?)\s*Actual:\s*(.*)', message,
\*           re.DOTALL | re.IGNORECASE): the leftmost start, the first group
\* lazy, the second greedy to the end
Pattern2(m) ==
    LET found(s) == {a \in (s + Len(L_expected))..Len(m) : MatchAtI(m, a, L_actual)}
        starts == {s \in 1..Len(m) : MatchAtI(m, s, L_expected) /\ found(s) # {}}
    IN  IF starts = {} THEN <<>>
        ELSE LET s == Min(starts)
                 a == Min(found(s))
             IN  <<[expected |-> Strip(Slice(m, s + Len(L_expected), a - 1)),
                    actual |-> Strip(Slice(m, a + Len(L_actual), Len(m)))]>>

\* the two rules tried in the other order
ParseAssertionErrorSwapped(m) ==
    IF Pattern2(m) # <<>> THEN Pattern2(m) ELSE Pattern1(m)

\* parse_assertion_error(message): <<>> for None, else <<dict>>
ParseAssertionError(m) ==
    IF Pattern1(m) # <<>> THEN Pattern1(m) ELSE Pattern2(m)

MaxPieces == 3
T_expectedFooActualBar == <<"E", "x", "p", "e", "c", "t", "e", "d", ":", " ", "f", "o", "o", " ", "A", "c", "t", "u", "a", "l", ":", " ", "b", "a", "r">>
Pieces ==
    <<T_expected53,
      T_expectedFooActualBar,
      T_npe,
      <<"E", "X", "P", "E", "C", "T", "E", "D", ":">>,
      <<" ", "<", "a", "<", "b", ">", ">", " ">>,
      L_butwas,
      <<" ", "A", "c", "t", "u", "a", "l", ":", " ">>,
      <<"\n">>,
      <<"<", "x", ">">> >>

\* the messages: up to MaxPieces pieces, concatenated
Messages ==
    {ConcatAll([i \in 1..Len(ix) |-> Pieces[ix[i]]]) :
        ix \in UNION {[1..k -> 1..Len(Pieces)] : k \in 0..MaxPieces}}

InitParse ==
    /\ message \in Messages
    /\ parsed = <<>>
    /\ batch = <<>> /\ pos = 1 /\ failures = <<>> /\ stderr = <<>>
    /\ raised = FALSE /\ returned = FALSE
    /\ repo = <<>> /\ done = 0 /\ tests = <<>> /\ summaries = <<>> /\ overall = <<>>

CallParseAssertionError ==
    /\ parsed = <<>>
    /\ parsed' = <<ParseAssertionError(message)>>
    /\ UNCHANGED message
    /\ UNCHANGED <<extractVars, scanVars>>

NextParse == CallParseAssertionError
SpecParse == InitParse /\ [][NextParse]_vars

(***************************************************************************)
(* generate_test_report.py: TestScanner.scan_java_file                     *)
(***************************************************************************)
L_Test == <<"@", "T", "e", "s", "t">>
L_ParameterizedTest == <<"@", "P", "a", "r", "a", "m", "e", "t", "e", "r", "i", "z", "e", "d", "T", "e", "s", "t">>
L_RepeatedTest == <<"@", "R", "e", "p", "e", "a", "t", "e", "d", "T", "e", "s", "t">>
L_Disabled == <<"@", "D", "i", "s", "a", "b", "l", "e", "d">>
L_Comment == <<"/", "/">>
L_public == <<"p", "u", "b", "l", "i", "c">>
L_private == <<"p", "r", "i", "v", "a", "t", "e">>
L_protected == <<"p", "r", "o", "t", "e", "c", "t", "e", "d">>
L_static == <<"s", "t", "a", "t", "i", "c">>
L_class == <<"c", "l", "a", "s", "s">>
L_package == <<"p", "a", "c", "k", "a", "g", "e">>
NoReasonSpecified == <<"N", "o", " ", "r", "e", "a", "s", "o", "n", " ", "s", "p", "e", "c", "i", "f", "i", "e", "d">>
Lookback == 10

\* content, as read from the file: '\n'.join(lines)
Content(lines) ==
    ConcatAll([i \in 1..Len(lines) |-> IF i = 1 THEN lines[i] ELSE <<"\n">> \o lines[i]])

\* class\s+(\w+) tried at position s: the position of the name, or 0
ClassAt(c, s) ==
    IF MatchAt(c, s, L_class)
    THEN LET p == SkipSpace(c, s + Len(L_class))
         IN  IF p > s + Len(L_class) /\ p <= Len(c) /\ IsWord(c[p]) THEN p ELSE 0
    ELSE 0

\* (?:public\s+)?class\s+(\w+) tried at position s: the position of the
\* name, or 0
PublicClassAt(c, s) ==
    IF ClassAt(c, s) # 0 THEN ClassAt(c, s)
    ELSE IF MatchAt(c, s, L_public) /\ SkipSpace(c, s + Len(L_public)) > s + Len(L_public)
         THEN ClassAt(c, SkipSpace(c, s + Len(L_public)))
         ELSE 0

\* re.search(r'(?:public\s+)?class\s+(\w+)', content): <<>> for None, else
\* <<group 1>>
ClassMatch(c) ==
    LET starts == {s \in 1..Len(c) : PublicClassAt(c, s) # 0}
    IN  IF starts = {} THEN <<>>
        ELSE LET p == PublicClassAt(c, Min(starts))
             IN  <<Slice(c, p, SkipWord(c, p) - 1)>>

\* the position after a maximal run of [\w.] starting at p
SkipDotted(c, p) ==
    IF \E q \in p..Len(c) : ~(IsWord(c[q]) \/ c[q] = ".")
    THEN CHOOSE q \in p..Len(c) :
            /\ ~(IsWord(c[q]) \/ c[q] = ".")
            /\ \A k \in p..(q - 1) : IsWord(c[k]) \/ c[k] = "."
    ELSE Len(c) + 1

\* package\s+([\w.]+); tried at position s: the position of the name, or 0
PackageAt(c, s) ==
    IF MatchAt(c, s, L_package)
    THEN LET p == SkipSpace(c, s + Len(L_package))
             e == SkipDotted(c, p)
         IN  IF p > s + Len(L_package) /\ e > p /\ e <= Len(c) /\ c[e] = ";" THEN p ELSE 0
    ELSE 0

\* re.search(r'package\s+([\w.]+);', content)
PackageMatch(c) ==
    LET starts == {s \in 1..Len(c) : PackageAt(c, s) # 0}
    IN  IF starts = {} THEN <<>>
        ELSE LET p == PackageAt(c, Min(starts))
             IN  <<Slice(c, p, SkipDotted(c, p) - 1)>>

\* @Disabled\s*\(\s*["\']([^"\']+)["\']\s*\) tried at position s: <<>>, or
\* <<first, last>> positions of the group
ReasonAt(l, s) ==
    IF ~MatchAt(l, s, L_Disabled) THEN <<>>
    ELSE LET p == SkipSpace(l, s + Len(L_Disabled))
         IN  IF ~(p <= Len(l) /\ l[p] = "(") THEN <<>>
             ELSE LET q == SkipSpace(l, p + 1)
                  IN  IF ~(q <= Len(l) /\ l[q] \in {"\"", "'"}) THEN <<>>
                      ELSE LET closers == {e \in (q + 1)..Len(l) : l[e] \in {"\"", "'"}}
                           IN  IF closers = {} \/ Min(closers) = q + 1 THEN <<>>
                               ELSE LET r == SkipSpace(l, Min(closers) + 1)
                                    IN  IF r <= Len(l) /\ l[r] = ")"
                                        THEN <<q + 1, Min(closers) - 1>>
                                        ELSE <<>>

\* re.search(r'@Disabled\s*\(\s*["\']([^"\']+)["\']\s*\)', prev_line):
\* <<>> for None, else <<group 1>>
ReasonMatch(l) ==
    LET starts == {s \in 1..Len(l) : ReasonAt(l, s) # <<>>}
    IN  IF starts = {} THEN <<>>
        ELSE LET g == ReasonAt(l, Min(starts))
             IN  <<Slice(l, g[1], g[2])>>

Visibility == {L_public, L_private, L_protected}

\* (?:void|\w+)\s+(\w+)\s*\(   tried at position u: the position of the
\* name, or 0.  Each \w+ is followed by something that is no word character,
\* each \s+ by something that is no whitespace, so each run is maximal.
TypeAndNameAt(l, u) ==
    LET e == SkipWord(l, u)
        n == SkipSpace(l, e)
        p == SkipSpace(l, SkipWord(l, n))
    IN  IF e > u /\ n > e /\ SkipWord(l, n) > n /\ p <= Len(l) /\ l[p] = "(" THEN n ELSE 0

\* re.match(r'\s*(?:public|private|protected)?\s+(?:static\s+)?(?:void|\w+)
\*            \s+(\w+)\s*\(', line): <<>> for None, else <<group 1>>.
\* The match starts at the first character.  Without a visibility word,
\* \s*\s+ takes the leading whitespace, which must not be empty; with one,
\* the word stands after the leading whitespace and is followed by
\* whitespace.  The static word is optional at either place.
MethodMatch(l) ==
    LET w == SkipSpace(l, 1)
        bare == IF w > 1 THEN {w} ELSE {}
        qualified == {SkipSpace(l, w + Len(v)) :
                         v \in {x \in Visibility :
                                   /\ MatchAt(l, w, x)
                                   /\ SkipSpace(l, w + Len(x)) > w + Len(x)}}
        static == {SkipSpace(l, t + Len(L_static)) :
                      t \in {x \in bare \cup qualified :
                                /\ MatchAt(l, x, L_static)
                                /\ SkipSpace(l, x + Len(L_static)) > x + Len(L_static)}}
        names == {TypeAndNameAt(l, u) : u \in bare \cup qualified \cup static} \ {0}
    IN  IF names = {} THEN <<>>
        ELSE <<Slice(l, Min(names), SkipWord(l, Min(names)) - 1)>>

\* the if/elif chain on the test annotations, keeping the first marker line
\* of the window instead of the last
TestAnnotationKeepFirst(prev_line, test_annotation) ==
    IF test_annotation # "None" THEN test_annotation
    ELSE IF Contains(prev_line, L_Test) THEN "Test"
    ELSE IF Contains(prev_line, L_ParameterizedTest) THEN "ParameterizedTest"
    ELSE IF Contains(prev_line, L_RepeatedTest) THEN "RepeatedTest"
    ELSE test_annotation

\* the if/elif chain on the test annotations
TestAnnotation(prev_line, test_annotation) ==
    IF Contains(prev_line, L_Test) THEN "Test"
    ELSE IF Contains(prev_line, L_ParameterizedTest) THEN "ParameterizedTest"
    ELSE IF Contains(prev_line, L_RepeatedTest) THEN "RepeatedTest"
    ELSE test_annotation

\* the reason taken from a marker line, with an empty string where the
\* pattern does not match
DisabledReasonOrEmpty(prev_line) ==
    IF ReasonMatch(prev_line) # <<>> THEN ReasonMatch(prev_line)[1] ELSE <<>>

\* the sentinel, whatever the line gives as its reason
DisabledReasonNotCaptured(prev_line) == NoReasonSpecified

\* the reason set by a line that contains @Disabled
DisabledReason(prev_line) ==
    IF ReasonMatch(prev_line) # <<>> THEN ReasonMatch(prev_line)[1] ELSE NoReasonSpecified

\* one iteration of the look-back loop
ClassifyLine(prev_line, st) ==
    LET disabled == Contains(prev_line, L_Disabled)
    IN  [test_annotation |-> TestAnnotation(prev_line, st.test_annotation),
         is_disabled |-> IF disabled THEN TRUE ELSE st.is_disabled,
         disabled_reason |-> IF disabled THEN DisabledReason(prev_line) ELSE st.disabled_reason]

\* range(max(0, i-10), i), 1-based, with one more line
WindowStartWider(i) == IF i - (Lookback + 1) > 1 THEN i - (Lookback + 1) ELSE 1

\* range(max(0, i-10), i), 1-based: the first line of the window of line i
WindowStart(i) == IF i - Lookback > 1 THEN i - Lookback ELSE 1

RECURSIVE LookBack(_, _, _, _)
\* the look-back loop over lines j..i-1
LookBack(lines, j, i, st) ==
    IF j >= i THEN st
    ELSE LookBack(lines, j + 1, i, ClassifyLine(Strip(lines[j]), st))

\* the pending state of line i when the three variables are set once before
\* the while loop and not again for every line: what the lines of the
\* earlier windows have set stays, so every line above line i counts
PendingCarried(lines, i) ==
    LookBack(lines, 1, i,
             [test_annotation |-> "None", is_disabled |-> FALSE, disabled_reason |-> <<>>])

\* the pending state of line i after its look-back loop
Pending(lines, i) ==
    LookBack(lines, WindowStart(i), i,
             [test_annotation |-> "None", is_disabled |-> FALSE, disabled_reason |-> <<>>])

\* the body of the while loop for line i: the records it appends
LineTests(lines, i, plugin_name, rel_path, full_class_name) ==
    LET pending == Pending(lines, i)
        method_match == MethodMatch(lines[i])
    IN  IF method_match # <<>> /\ pending.test_annotation # "None"
        THEN <<[plugin |-> plugin_name,
                file_path |-> rel_path,
                class_name |-> full_class_name,
                method_name |-> method_match[1],
                is_disabled |-> pending.is_disabled,
                disabled_reason |-> pending.disabled_reason,
                test_type |-> pending.test_annotation,
                line_number |-> i]>>
        ELSE <<>>

\* scan_java_file for a readable file with these lines: the records appended
ScanLines(lines, plugin_name, rel_path) ==
    LET content == Content(lines)
        class_match == ClassMatch(content)
        package_match == PackageMatch(content)
    IN  IF class_match = <<>> THEN <<>>
        ELSE LET full_class_name ==
                     IF package_match # <<>>
                     THEN package_match[1] \o <<".">> \o class_match[1]
                     ELSE class_match[1]
             IN  ConcatAll([i \in 1..Len(lines) |->
                               LineTests(lines, i, plugin_name, rel_path, full_class_name)])

(***************************************************************************)
(* The Java files.  A file is a record naming its parts: a header, up to   *)
(* MaxMarkers annotation lines, pad blank lines and a tail.                *)
(***************************************************************************)
MaxMarkers == 2
MaxPad == 10
MaxScans == 3

J_class == <<"p", "u", "b", "l", "i", "c", " ", "c", "l", "a", "s", "s", " ", "F", "o", "o", "T", "e", "s", "t", " ", "{">>
J_package == <<"p", "a", "c", "k", "a", "g", "e", " ", "o", "r", "g", ".", "x", ";">>
J_testFoo == <<" ", " ", " ", " ", "p", "u", "b", "l", "i", "c", " ", "v", "o", "i", "d", " ", "t", "e", "s", "t", "F", "o", "o", "(", ")", " ", "{">>
J_testBar == <<" ", " ", " ", " ", "v", "o", "i", "d", " ", "t", "e", "s", "t", "B", "a", "r", "(", ")", " ", "{">>
J_close == <<" ", " ", " ", " ", "}">>
J_return == <<" ", " ", " ", " ", "r", "e", "t", "u", "r", "n", " ", "h", "e", "l", "p", "e", "r", "(", "1", ")", ";">>
R_flaky == <<"f", "l", "a", "k", "y">>
R_itsSlow == <<"i", "t", "'", "s", " ", "s", "l", "o", "w">>

\* the annotation lines
MarkerLines ==
    <<<<" ", " ", " ", " ">> \o L_Test,
      <<" ", " ", " ", " ">> \o L_ParameterizedTest,
      <<" ", " ", " ", " ">> \o L_RepeatedTest \o <<"(", "3", ")">>,
      <<" ", " ", " ", " ">> \o L_Disabled,
      <<" ", " ", " ", " ">> \o L_Disabled \o <<"(", "\"">> \o R_flaky \o <<"\"", ")">>,
      <<" ", " ", " ", " ">> \o L_Disabled \o <<"(", "\"">> \o R_itsSlow \o <<"\"", ")">>,
      <<" ", " ", " ", " ", "/", "/", " ">> \o L_Disabled \o <<"(", "\"">> \o R_flaky \o <<"\"", ")">>>>

\* the string literal an annotation line gives @Disabled as its argument:
\* <<>> when it gives none, else <<the text between the double quotes>>
WrittenReason ==
    <<<<>>, <<>>, <<>>, <<>>, <<R_flaky>>, <<R_itsSlow>>, <<R_flaky>>>>

Headers == <<<<J_class>>, <<J_package, <<>>, J_class>>>>
Tails == <<<<J_testFoo>>, <<J_testFoo, J_close, J_testBar>>, <<J_return>>>>

\* the lines of a file (header 0: no type declaration)
JavaLines(file) ==
    (IF file.header = 0 THEN <<>> ELSE Headers[file.header])
    \o [i \in 1..Len(file.markers) |-> MarkerLines[file.markers[i]]]
    \o [i \in 1..file.pad |-> <<>>]
    \o Tails[file.tail]

MarkerSeqs == UNION {[1..k -> 1..Len(MarkerLines)] : k \in 0..MaxMarkers}

\* the files scanned one at a time
\* the numbers of blank lines tried below the annotations m: all of them for
\* up to two annotation lines, none and the ones that put the first
\* annotation at the edge of the window or outside for more
Pads(m) ==
    IF Len(m) <= 2 THEN 0..MaxPad
    ELSE {0} \cup {k \in 0..MaxPad : k + Len(m) >= Lookback}

JavaFiles ==
    UNION {{[header |-> 1, markers |-> m, pad |-> k, tail |-> t] :
               k \in Pads(m), t \in 1..Len(Tails)} : m \in MarkerSeqs}
    \cup {[header |-> h, markers |-> m, pad |-> 0, tail |-> 1] : h \in {0, 2}, m \in MarkerSeqs}

\* the files of the repositories scanned as a whole
ModuleFiles ==
    {[header |-> 1, markers |-> <<1>>, pad |-> 0, tail |-> 1],
     [header |-> 1, markers |-> <<4, 1>>, pad |-> 0, tail |-> 1],
     [header |-> 2, markers |-> <<5, 2>>, pad |-> 0, tail |-> 2],
     [header |-> 1, markers |-> <<>>, pad |-> 0, tail |-> 1]}
Plugins == {"a_test", "b_test"}
ModuleEntries == {[plugin |-> pl, file |-> f] : pl \in Plugins, f \in ModuleFiles}

(***************************************************************************)
(* TestScanner: scan_java_file per file, then the report                   *)
(***************************************************************************)
\* scan_java_file(file_path, plugin_name): the new value of self.tests
ScanJavaFile(ts, entry) ==
    ts \o ScanLines(JavaLines(entry.file), entry.plugin, entry)

RECURSIVE PluginOrder(_)
\* the keys of plugin_tests, in insertion order
PluginOrder(ts) ==
    IF ts = <<>> THEN <<>>
    ELSE LET before == PluginOrder(Prefix(ts, Len(ts) - 1))
             pl == ts[Len(ts)].plugin
         IN  IF pl \in Range(before) THEN before ELSE Append(before, pl)

\* a summary that reports every test as enabled
PluginSummaryAllEnabled(plugin_name, ptests) ==
    LET total == Len(ptests)
        disabled == Len(SelectSeq(ptests, LAMBDA t : t.is_disabled))
        enabled == total
        test_files == Cardinality({ptests[i].file_path : i \in 1..Len(ptests)})
    IN  [plugin_name |-> plugin_name, total_tests |-> total, disabled_tests |-> disabled,
         enabled_tests |-> enabled, test_files |-> test_files]

\* the PluginSummary of one plugin's tests
PluginSummary(plugin_name, ptests) ==
    LET total == Len(ptests)
        disabled == Len(SelectSeq(ptests, LAMBDA t : t.is_disabled))
        enabled == total - disabled
        test_files == Cardinality({ptests[i].file_path : i \in 1..Len(ptests)})
    IN  [plugin_name |-> plugin_name, total_tests |-> total, disabled_tests |-> disabled,
         enabled_tests |-> enabled, test_files |-> test_files]

\* generate_summary(): the summaries, in the order of the dict
GenerateSummary(ts) ==
    LET order == PluginOrder(ts)
    IN  [k \in 1..Len(order) |->
            PluginSummary(order[k], SelectSeq(ts, LAMBDA t : t.plugin = order[k]))]

RECURSIVE Sum(_)
\* sum(...)
Sum(ns) == IF ns = <<>> THEN 0 ELSE Head(ns) + Sum(Tail(ns))

\* the overall statistics of generate_markdown_report
Overall(sums) ==
    [total_modules |-> Len(sums),
     total_tests |-> Sum([k \in 1..Len(sums) |-> sums[k].total_tests]),
     total_disabled |-> Sum([k \in 1..Len(sums) |-> sums[k].disabled_tests]),
     total_enabled |-> Sum([k \in 1..Len(sums) |-> sums[k].enabled_tests]),
     total_files |-> Sum([k \in 1..Len(sums) |-> sums[k].test_files])]

InitScan ==
    /\ repo \in {<<[plugin |-> "a_test", file |-> f]>> : f \in JavaFiles}
               \cup Listings(ModuleEntries, MaxScans)
    /\ done = 0
    /\ tests = <<>>
    /\ summaries = <<>>
    /\ overall = <<>>
    /\ batch = <<>> /\ pos = 1 /\ failures = <<>> /\ stderr = <<>>
    /\ raised = FALSE /\ returned = FALSE
    /\ message = <<>> /\ parsed = <<>>

\* scan_all calls scan_java_file on the next file
CallScanJavaFile ==
    /\ overall = <<>>
    /\ done < Len(repo)
    /\ tests' = ScanJavaFile(tests, repo[done + 1])
    /\ done' = done + 1
    /\ UNCHANGED <<repo, summaries, overall>>
    /\ UNCHANGED <<extractVars, parseVars>>

\* main: after scan_all, generate_markdown_report
GenerateMarkdownReport ==
    /\ overall = <<>>
    /\ done = Len(repo)
    /\ summaries' = GenerateSummary(tests)
    /\ overall' = <<Overall(GenerateSummary(tests))>>
    /\ UNCHANGED <<repo, done, tests>>
    /\ UNCHANGED <<extractVars, parseVars>>

NextScan == CallScanJavaFile \/ GenerateMarkdownReport
SpecScan == InitScan /\ [][NextScan]_vars

(***************************************************************************)
(* Properties of extract_failures                                          *)
(***************************************************************************)
RECURSIVE CountTag(_, _)
\* the number of elements with that tag in the tree of e
CountTag(e, tag) ==
    (IF e.tag = tag THEN 1 ELSE 0)
    + Len(ConcatAll([i \in 1..Len(e.children) |->
                        [k \in 1..CountTag(e.children[i], tag) |-> 0]]))

\* a test case with at most one failure and at most one error child
CaseShaped(c) ==
    /\ c.tag = "testcase"
    /\ Len(Findall(c, "failure")) <= 1
    /\ Len(Findall(c, "error")) <= 1
    /\ \A i \in 1..Len(c.children) : c.children[i].children = <<>>

SuiteShaped(s) ==
    /\ s.tag = "testsuite"
    /\ \A i \in 1..Len(s.children) : CaseShaped(s.children[i])

\* the document shape of the external interface: a suite of test cases, or
\* a container of such suites
WellShaped(root) ==
    \/ SuiteShaped(root)
    \/ /\ root.tag = "testsuites"
       /\ \A i \in 1..Len(root.children) : SuiteShaped(root.children[i])

Readable(path) == ET_parse(path).status = "ok"

\* the marker kinds of a well-shaped document, in the order of its test cases
KindsOfSuite(s) ==
    ConcatAll([i \in 1..Len(s.children) |->
        (IF Findall(s.children[i], "failure") # <<>> THEN <<"Failure">> ELSE <<>>)
        \o (IF Findall(s.children[i], "error") # <<>> THEN <<"Error">> ELSE <<>>)])
KindsOfDocument(root) ==
    IF root.tag = "testsuites"
    THEN ConcatAll([i \in 1..Len(root.children) |-> KindsOfSuite(root.children[i])])
    ELSE KindsOfSuite(root)

\* the paths handled so far
Handled == Prefix(batch, pos - 1)

\* the marker kinds of the documents handled so far
KindsHandled == ConcatAll([i \in 1..Len(Handled) |-> KindsOfDocument(XmlTree(Handled[i]))])

AllWellShaped ==
    \A i \in 1..Len(Handled) : Readable(Handled[i]) /\ WellShaped(XmlTree(Handled[i]))

\* the number of failure and error elements in the documents handled so far
MarkersHandled ==
    Len(ConcatAll([i \in 1..Len(Handled) |->
        [k \in 1..(CountTag(XmlTree(Handled[i]), "failure")
                   + CountTag(XmlTree(Handled[i]), "error")) |-> 0]]))

\* C1 (the count alone): well-shaped documents with N failure and M error
\* elements give exactly N+M records.
C1_ExactlyNPlusM == AllWellShaped => Len(failures) = MarkersHandled

\* C1: from well-shaped documents with N failure markers and M error markers
\* exactly N+M records are produced, and each record carries a kind, Failure
\* or Error, equal to the type of the marker it was created from.
C1_KindMatchesMarker ==
    AllWellShaped =>
        /\ Len(failures) = MarkersHandled
        /\ \A i \in 1..Len(failures) :
              /\ "kind" \in DOMAIN failures[i]
              /\ failures[i].kind = KindsHandled[i]

\* what a document contributes when it is the only one of the batch
Alone(path) ==
    IF Readable(path) THEN DocumentEntries(XmlTree(path)) ELSE <<>>

\* C2: a document that fails to parse contributes no record and one
\* diagnostic, nothing is raised out of the loop, the loop goes on to the
\* next document, and the other documents contribute what they contribute
\* alone.
C2_MalformedIsIsolated ==
    /\ ~raised
    /\ failures = ConcatAll([i \in 1..Len(Handled) |-> Alone(Handled[i])])
    /\ SelectSeq(stderr, LAMBDA w : w.warning = "Could not parse")
         = [i \in 1..Len(SelectSeq(Handled, LAMBDA q : q.name = "malformed")) |->
               [warning |-> "Could not parse",
                path |-> SelectSeq(Handled, LAMBDA q : q.name = "malformed")[i]]]
    /\ (pos <= Len(batch) => ~returned)
    /\ (returned => pos = Len(batch) + 1)

\* a malformed document between two documents that both contribute records
C2_Witness ==
    /\ returned
    /\ Len(batch) = 3
    /\ batch[2].name = "malformed"
    /\ Alone(batch[1]) # <<>> /\ Alone(batch[3]) # <<>>
    /\ failures = Alone(batch[1]) \o Alone(batch[3])
    /\ Len(stderr) = 1

\* the message and body text of the marker of a generated document
SourceMessage(path) == IF path.mlen < 0 THEN NoMessage ELSE MakeMessage(path.mlen)
SourceStacktrace(path) == IF path.slen = 0 THEN NoStacktrace ELSE MakeStacktrace(path.slen)

\* stored is the first cap units of source followed by suffix
ClippedTo(stored, source, cap, suffix) ==
    /\ Len(stored) = cap + Len(suffix)
    /\ \A i \in 1..cap : stored[i] = source[i]
    /\ \A k \in 1..Len(suffix) : stored[cap + k] = suffix[k]

EndsWith(s, suffix) == Len(s) >= Len(suffix) /\ MatchAt(s, Len(s) - Len(suffix) + 1, suffix)

\* C7: a message longer than 1000 units (a stack trace longer than 5000) is
\* stored as its first 1000 (5000) units followed by the truncation marker,
\* so it ends with the marker; one not longer than its cap is stored
\* verbatim; failure and error markers alike.
C7_Truncation ==
    (Len(batch) = 1 /\ batch[1].name = "generated" /\ pos = 2) =>
        /\ Len(failures) = 1
        /\ LET m == SourceMessage(batch[1])
               t == SourceStacktrace(batch[1])
               r == failures[1]
           IN  /\ Len(m) > 1000 =>
                     ClippedTo(r.message, m, 1000, MessageSuffix) /\ EndsWith(r.message, MessageSuffix)
               /\ Len(m) <= 1000 => r.message = m
               /\ Len(t) > 5000 =>
                     /\ ClippedTo(r.stacktrace, t, 5000, StacktraceSuffix)
                     /\ EndsWith(r.stacktrace, MessageSuffix)
               /\ Len(t) <= 5000 => r.stacktrace = t

\* an error marker whose message is clipped while its stack trace, exactly
\* at the cap, is not
C7_Witness ==
    /\ returned
    /\ Len(batch) = 1 /\ batch[1].name = "generated" /\ batch[1].tag = "error"
    /\ batch[1].mlen = MessageCap + 1 /\ batch[1].slen = StacktraceCap
    /\ Len(failures) = 1
    /\ Len(failures[1].message) = MessageCap + Len(MessageSuffix)
    /\ Len(failures[1].stacktrace) = StacktraceCap

(***************************************************************************)
(* Properties of parse_assertion_error                                     *)
(***************************************************************************)
\* C8: the rules are tried in order: when 'expected: <X> but was: <Y>'
\* matches, the result comes from it, even when 'Expected: X Actual: Y'
\* matches too; only otherwise the second rule is used; when neither matches
\* the result is None.  'expected: <5> but was: <3>' gives 5 and 3,
\* 'Expected: foo Actual: bar' gives foo and bar, 'NullPointerException'
\* gives None.
C8_FirstMatchWins ==
    parsed # <<>> =>
        /\ Pattern1(message) # <<>> => parsed[1] = Pattern1(message)
        /\ (Pattern1(message) = <<>> /\ Pattern2(message) # <<>>) => parsed[1] = Pattern2(message)
        /\ (Pattern1(message) = <<>> /\ Pattern2(message) = <<>>) => parsed[1] = <<>>
        /\ message = T_expected53 => parsed[1] = <<[expected |-> <<"5">>, actual |-> <<"3">>]>>
        /\ message = T_expectedFooActualBar =>
              parsed[1] = <<[expected |-> <<"f", "o", "o">>, actual |-> <<"b", "a", "r">>]>>
        /\ message = T_npe => parsed[1] = <<>>

\* a message both rules match, with different results, answered by the first
C8_Witness ==
    /\ parsed # <<>>
    /\ message = T_expectedFooActualBar \o T_expected53
    /\ Pattern2(message) # <<>> /\ Pattern2(message) # Pattern1(message)
    /\ parsed[1] = <<[expected |-> <<"5">>, actual |-> <<"3">>]>>

(***************************************************************************)
(* Properties of scan_java_file and of the report                          *)
(***************************************************************************)
\* the lines of the file a record was found in
LinesOf(r) == JavaLines(r.file_path.file)

\* the up to 10 lines before line i
Window(i) == (IF i - 10 > 1 THEN i - 10 ELSE 1)..(i - 1)

HasTestMarker(l) ==
    Contains(l, L_Test) \/ Contains(l, L_ParameterizedTest) \/ Contains(l, L_RepeatedTest)
HasDisabled(l) == Contains(l, L_Disabled)

\* the lines of the window of line i that carry a marker
TestMarkersBefore(lines, i) == {j \in Window(i) : HasTestMarker(lines[j])}
DisabledBefore(lines, i) == {j \in Window(i) : HasDisabled(lines[j])}

\* which annotation line a line of a file is
MarkerIndex(l) == CHOOSE m \in 1..Len(MarkerLines) : MarkerLines[m] = l

\* the kind an annotation line stands for
KindOfMarker == <<"Test", "ParameterizedTest", "RepeatedTest", "None", "None", "None", "None">>

\* the reason an annotation line gives can be read: it is not empty and
\* holds no quote character
Parsable(m) ==
    /\ WrittenReason[m] # <<>>
    /\ WrittenReason[m][1] # <<>>
    /\ \A k \in 1..Len(WrittenReason[m][1]) : WrittenReason[m][1][k] \notin {"\"", "'"}

\* one file has been scanned, and it holds one method declaration
OneDeclarationScanned ==
    /\ Len(repo) = 1 /\ done = 1
    /\ repo[1].file.header # 0
    /\ repo[1].file.tail = 1

\* the line of that declaration
DeclarationLine == Len(JavaLines(repo[1].file))

\* C3: a declaration with a test-kind marker in its window whose only
\* disablement marker there stands on a line that also holds // gives a
\* record with is_disabled = false.
C3_CommentedDisabledIgnored ==
    \A k \in 1..Len(tests) :
        LET lines == LinesOf(tests[k])
            d == DisabledBefore(lines, tests[k].line_number)
        IN  (Cardinality(d) = 1 /\ \A j \in d : Contains(lines[j], L_Comment))
                => tests[k].is_disabled = FALSE

\* C4: every record stands for a line that has the shape of a method
\* declaration and has a test-kind marker among the up to 10 lines before
\* it, in a file with a type name; so a declaration without such a marker,
\* and any line of a file without a type name, has no record.
C4_OnlyMarkedDeclarations ==
    \A k \in 1..Len(tests) :
        LET lines == LinesOf(tests[k])
            i == tests[k].line_number
        IN  /\ i \in 1..Len(lines)
            /\ MethodMatch(lines[i]) # <<>>
            /\ TestMarkersBefore(lines, i) # {}
            /\ tests[k].file_path.file.header # 0
            /\ \E e \in 1..done : tests[k].file_path = repo[e]

\* a file whose first declaration has its @Test 10 lines above and whose
\* second has it 12 lines above: one record, for the first
C4_Witness ==
    /\ Len(repo) = 1 /\ done = 1
    /\ repo[1].file = [header |-> 1, markers |-> <<1>>, pad |-> 9, tail |-> 2]
    /\ Len(tests) = 1
    /\ tests[1].line_number = 12
    /\ MethodMatch(JavaLines(repo[1].file)[14]) # <<>>

C6_SummariesAddUp ==
    overall # <<>> =>
        LET ofPlugin(pl) == {i \in 1..Len(tests) : tests[i].plugin = pl}
            disabledOf(pl) == {i \in ofPlugin(pl) : tests[i].is_disabled}
            o == overall[1]
        IN  /\ \A k \in 1..Len(summaries) :
                  /\ summaries[k].enabled_tests = summaries[k].total_tests - summaries[k].disabled_tests
                  /\ 0 <= summaries[k].disabled_tests
                  /\ summaries[k].disabled_tests <= summaries[k].total_tests
                  /\ summaries[k].total_tests = Cardinality(ofPlugin(summaries[k].plugin_name))
                  /\ summaries[k].disabled_tests = Cardinality(disabledOf(summaries[k].plugin_name))
            /\ {summaries[k].plugin_name : k \in 1..Len(summaries)}
                  = {tests[i].plugin : i \in 1..Len(tests)}
            /\ \A k, m \in 1..Len(summaries) :
                  summaries[k].plugin_name = summaries[m].plugin_name => k = m
            /\ o.total_modules = Len(summaries)
            /\ o.total_tests = Len(tests)
            /\ o.total_disabled = Cardinality({i \in 1..Len(tests) : tests[i].is_disabled})
            /\ o.total_enabled + o.total_disabled = o.total_tests
            /\ \A pl \in Plugins :
                  Cardinality(ofPlugin(pl)) # 0 =>
                      \E k \in 1..Len(summaries) : summaries[k].plugin_name = pl

\* a report over two modules, one of them with a disabled and an enabled test
C6_Witness ==
    /\ overall # <<>>
    /\ Len(summaries) = 2
    /\ Len(tests) = 4
    /\ \E k \in 1..2 : summaries[k].disabled_tests = 1 /\ summaries[k].enabled_tests = 1
    /\ overall[1].total_disabled = 3 /\ overall[1].total_enabled = 1

C10_NearestKindWins ==
    \A k \in 1..Len(tests) :
        LET lines == LinesOf(tests[k])
            t == TestMarkersBefore(lines, tests[k].line_number)
        IN  /\ t # {}
            /\ tests[k].test_type = KindOfMarker[MarkerIndex(lines[Max(t)])]

\* @Test above @RepeatedTest(3): a Repeated record
C10_Witness ==
    /\ Len(repo) = 1 /\ done = 1
    /\ repo[1].file.markers = <<1, 3>> /\ repo[1].file.tail = 1
    /\ Len(tests) = 1
    /\ tests[1].test_type = "RepeatedTest"

\* the records of line i of the e-th file scanned
RecordsAt(e, i) ==
    {k \in 1..Len(tests) : tests[k].file_path = repo[e] /\ tests[k].line_number = i}

\* C11: the record of a declaration depends on the 10 lines before it and on
\* nothing else: a declaration with a test-kind marker in its own window has
\* one record, of the kind of the last such marker there, disabled when an
\* uncommented disablement marker stands there and only when some
\* disablement marker does; a declaration without a test-kind marker in its
\* own window has none, whatever stands further above and whatever an
\* earlier declaration of the file was given.
C11_OwnWindowOnly ==
    \A e \in 1..done :
        LET lines == JavaLines(repo[e].file)
        IN  \A i \in 1..Len(lines) :
              (repo[e].file.header # 0 /\ MethodMatch(lines[i]) # <<>>) =>
                  LET t == TestMarkersBefore(lines, i)
                      d == DisabledBefore(lines, i)
                      recs == RecordsAt(e, i)
                  IN  IF t = {} THEN recs = {}
                      ELSE /\ Cardinality(recs) = 1
                           /\ \A k \in recs :
                                 /\ tests[k].test_type = KindOfMarker[MarkerIndex(lines[Max(t)])]
                                 /\ tests[k].is_disabled => d # {}
                                 /\ (\E j \in d : ~Contains(lines[j], L_Comment))
                                        => tests[k].is_disabled
                                 /\ d = {} => tests[k].disabled_reason = <<>>

\* @Disabled and @Test, 7 blank lines, testFoo, a closing brace, testBar: both
\* declarations have @Test within 10 lines and a record each, the first
\* disabled, the second, 11 lines below @Disabled, not
C11_Witness ==
    /\ Len(repo) = 1 /\ done = 1
    /\ repo[1].file = [header |-> 1, markers |-> <<4, 1>>, pad |-> 7, tail |-> 2]
    /\ Len(tests) = 2
    /\ tests[1].line_number = 11 /\ tests[1].is_disabled
    /\ tests[2].line_number = 13 /\ tests[2].is_disabled = FALSE
    /\ tests[1].test_type = "Test" /\ tests[2].test_type = "Test"

====
